---- MODULE Spec2Model ----
(***************************************************************************)
(* Dual-QR + OTP transaction authorisation backend.                        *)
(*                                                                         *)
(* The model follows the request handlers of the API (initiate, scan-qr1,  *)
(* generate-qr2, scan-qr2, send-otp, verify-otp, complete, cancel), the    *)
(* token codec (EncryptionService), the QR service, the OTP service and    *)
(* the status helper.  A handler is a sequence of database round trips;    *)
(* every round trip is one step, so two requests on the same row           *)
(* interleave exactly where the code awaits the database.  The caller of a *)
(* request is the user that authentication resolved.  The writes to        *)
(* transaction_logs and notifications that follow the update of a          *)
(* handler's success path run in the step of that update; they succeed, or *)
(* throw and send the handler to its catch block (WriteThenLogFails).      *)
(*                                                                         *)
(* Time is counted in minutes.  The table holds at most one transaction;   *)
(* it starts empty or holding one row whose QR1 has already been scanned   *)
(* (the state of txn_demo_002 of the seed data, with the key stored the    *)
(* way initiate and create-demo-users.ts store it).                        *)
(*                                                                         *)
(* Spec is the API with the verify-otp handler that leaves the row in      *)
(* OTP_VERIFIED; LegacySpec is the API with the repository's second        *)
(* verify-otp handler in its place.  ResendSpec is the API without verify-otp requests, with room  *)
(* for one more row of otp_logs.  ReadSpec is the API up to the second     *)
(* scan together with GET /api/transactions/[id].  AuthSpec is the pair of *)
(* login routes /api/auth/send-otp and /api/auth/verify-otp, each with the *)
(* Map its module declares (otpStore).  QRSpec and StatusSpec call the QR  *)
(* service and the status helper on their own; a call and what it returned *)
(* are recorded in req.                                                    *)
(*                                                                         *)
(* verify-otp runs its update, its log row and its notification inside the *)
(* try block of OTPService.verifyOTP, so a write that throws there goes to *)
(* the catch block that counts a failed attempt (CaughtAsOtpError).        *)
(***************************************************************************)
EXTENDS Integers, Sequences, FiniteSets, Bags, TLC

\* ------------------------------------------------------------------ bounds
MaxTime == 16
TickMinutes == 8
MaxInflight == 2
MaxOtpLogs == 1

\* ------------------------------------------------------- program constants
QR1_EXPIRY_MIN == 15
QR2_EXPIRY_MIN == 10
OTP_EXPIRY_MIN == 5
MAX_ATTEMPTS == 3
LOGIN_OTP_EXPIRY_MIN == 5

Users == {"U1", "U2", "U3"}
Senders == {"U1"}
Receivers == {"U2"}
Amounts == {500}
Codes == {"c1", "c2"}
KeyHeads == {"h1"}
KeyTails == {"t1"}
IVs == {"iv1"}
Nonces == {"n1"}

Null == <<>>
Some(x) == <<x>>
IsSet(x) == x # <<>>
Val(x) == x[1]

\* A Date column that the code only ever tests for null keeps a mark, not
\* the instant: new Date() written at minute t.
Stamped(t) == Some("date")

\* --------------------------------------------------- transaction-status.ts
Statuses ==
  {"INITIATED", "QR1_SCANNED", "QR2_GENERATED", "QR2_SCANNED", "OTP_SENT",
   "OTP_VERIFIED", "COMPLETED", "FAILED", "CANCELLED"}

VALID_TRANSITIONS ==
  [s \in Statuses |->
     CASE s = "INITIATED" -> <<"QR1_SCANNED", "CANCELLED">>
       [] s = "QR1_SCANNED" -> <<"QR2_GENERATED", "CANCELLED">>
       [] s = "QR2_GENERATED" -> <<"QR2_SCANNED", "CANCELLED">>
       [] s = "QR2_SCANNED" -> <<"OTP_SENT", "CANCELLED">>
       [] s = "OTP_SENT" -> <<"OTP_VERIFIED", "FAILED", "CANCELLED">>
       [] s = "OTP_VERIFIED" -> <<"COMPLETED", "FAILED", "CANCELLED">>
       [] OTHER -> <<>>]

Includes(seq, x) == \E i \in 1..Len(seq) : seq[i] = x

isValidTransition(currentStatus, nextStatus) ==
  Includes(VALID_TRANSITIONS[currentStatus], nextStatus)

Valid == [valid |-> TRUE, error |-> ""]
Invalid(e) == [valid |-> FALSE, error |-> e]

\* The prerequisites without otp_sent_at for OTP_VERIFIED.
validateStatusPrerequisites_NoSent(transaction, targetStatus) ==
  CASE targetStatus = "QR2_GENERATED" ->
         IF ~IsSet(transaction.qr1_generated_at)
         THEN Invalid("QR1 must be generated before QR2") ELSE Valid
    [] targetStatus = "OTP_SENT" ->
         IF ~IsSet(transaction.qr2_generated_at)
         THEN Invalid("QR2 must be generated before sending OTP") ELSE Valid
    [] targetStatus = "OTP_VERIFIED" ->
         IF ~IsSet(transaction.qr1_generated_at)
         THEN Invalid("QR1 must be scanned before verifying OTP")
         ELSE IF ~IsSet(transaction.qr2_generated_at)
         THEN Invalid("QR2 must be scanned before verifying OTP") ELSE Valid
    [] targetStatus = "COMPLETED" ->
         IF ~IsSet(transaction.otp_verified_at)
         THEN Invalid("OTP must be verified before completion")
         ELSE IF ~IsSet(transaction.qr1_generated_at)
         THEN Invalid("QR1 must be scanned")
         ELSE IF ~IsSet(transaction.qr2_generated_at)
         THEN Invalid("QR2 must be generated and scanned") ELSE Valid
    [] OTHER -> Valid

validateStatusPrerequisites(transaction, targetStatus) ==
  CASE targetStatus = "QR2_GENERATED" ->
         IF ~IsSet(transaction.qr1_generated_at)
         THEN Invalid("QR1 must be generated before QR2") ELSE Valid
    [] targetStatus = "OTP_SENT" ->
         IF ~IsSet(transaction.qr2_generated_at)
         THEN Invalid("QR2 must be generated before sending OTP") ELSE Valid
    [] targetStatus = "OTP_VERIFIED" ->
         IF ~IsSet(transaction.qr1_generated_at)
         THEN Invalid("QR1 must be scanned before verifying OTP")
         ELSE IF ~IsSet(transaction.qr2_generated_at)
         THEN Invalid("QR2 must be scanned before verifying OTP")
         ELSE IF ~IsSet(transaction.otp_sent_at)
         THEN Invalid("OTP must be sent before verification") ELSE Valid
    [] targetStatus = "COMPLETED" ->
         IF ~IsSet(transaction.otp_verified_at)
         THEN Invalid("OTP must be verified before completion")
         ELSE IF ~IsSet(transaction.qr1_generated_at)
         THEN Invalid("QR1 must be scanned")
         ELSE IF ~IsSet(transaction.qr2_generated_at)
         THEN Invalid("QR2 must be generated and scanned") ELSE Valid
    [] OTHER -> Valid

validateStatusTransition(transaction, targetStatus) ==
  IF ~isValidTransition(transaction.status, targetStatus)
  THEN Invalid("Invalid status transition from " \o transaction.status
                 \o " to " \o targetStatus)
  ELSE validateStatusPrerequisites(transaction, targetStatus)

\* getNextExpectedStatus with the test of its find turned round.
getNextExpectedStatus_Branch(currentStatus) ==
  LET transitions == VALID_TRANSITIONS[currentStatus]
      found == {i \in 1..Len(transitions) :
                  transitions[i] = "CANCELLED" \/ transitions[i] = "FAILED"}
  IN IF Len(transitions) = 0 \/ found = {} THEN Null
     ELSE Some(transitions[CHOOSE i \in found : \A j \in found : i <= j])

\* Array.prototype.find: the first element that passes the test, or null.
getNextExpectedStatus(currentStatus) ==
  LET transitions == VALID_TRANSITIONS[currentStatus]
      found == {i \in 1..Len(transitions) :
                  transitions[i] # "CANCELLED" /\ transitions[i] # "FAILED"}
  IN IF Len(transitions) = 0 \/ found = {} THEN Null
     ELSE Some(transitions[CHOOSE i \in found : \A j \in found : i <= j])

isTerminalStatus(status) ==
  status = "COMPLETED" \/ status = "FAILED" \/ status = "CANCELLED"

\* ------------------------------------------------------------ encryption.ts
\* generateKey: 32 random bytes as 64 hex characters, kept here as the first
\* 16 characters (head) and the remaining 48 (tail).
GeneratedKeys == [head : KeyHeads, tail : KeyTails]
GeneratedIVs == IVs

\* String.prototype.substring(0, 16) of a key: the head alone.
Substring16(key) == [head |-> key.head, tail |-> ""]

\* AES-CBC is deterministic: the ciphertext is a function of the three inputs.
encrypt(data, key, iv) == [data |-> data, key |-> key, iv |-> iv]

\* decrypt returns the plaintext under the key and IV of the encryption and
\* throws under any other pair.
decrypt(encryptedData, key, iv) ==
  IF encryptedData.key = key /\ encryptedData.iv = iv
  THEN [err |-> "", data |-> encryptedData.data]
  ELSE [err |-> "Failed to decrypt data", data |-> Null]

\* SHA-256 of a string: injective on the modelled codes, never the code itself.
hashOTP(otp) == <<"sha256", otp>>

\* ------------------------------------------------------------------- qr.ts
generateQR(data, encryptionKey, iv, t, nonce) ==
  LET qrData ==
        [data EXCEPT
           !.timestamp = t,
           !.expiresAt =
              t + (IF data.type = "qr1" THEN QR1_EXPIRY_MIN ELSE QR2_EXPIRY_MIN),
           !.nonce = nonce]
  IN encrypt(qrData, encryptionKey, iv)

\* validateQR with the expiry test counting the last minute as expired.
validateQR_Early(encryptedData, encryptionKey, iv, t) ==
  LET d == decrypt(encryptedData, encryptionKey, iv) IN
    IF d.err # "" THEN d
    ELSE IF d.data.expiresAt <= t
    THEN [err |-> "QR code has expired", data |-> Null]
    ELSE IF d.data.transactionId = "" \/ d.data.type = "" \/ d.data.amount = 0
    THEN [err |-> "Invalid QR code data structure", data |-> Null]
    ELSE d

validateQR(encryptedData, encryptionKey, iv, t) ==
  LET d == decrypt(encryptedData, encryptionKey, iv) IN
    IF d.err # "" THEN d
    ELSE IF d.data.expiresAt < t
    THEN [err |-> "QR code has expired", data |-> Null]
    ELSE IF d.data.transactionId = "" \/ d.data.type = "" \/ d.data.amount = 0
    THEN [err |-> "Invalid QR code data structure", data |-> Null]
    ELSE d

isExpired(qrData, t) == qrData.expiresAt < t

\* ------------------------------------------------------------------- state
VARIABLES
  now,           \* the clock, in minutes
  transactions,  \* the transactions table: <<>> or <<row>>
  otp_logs,      \* the otp_logs table, in creation order
  req,           \* the requests in flight between two database round trips
  last,          \* the response returned by the step just taken, if any
  otpStore       \* the otpStore Map of each login route module

vars == <<now, transactions, otp_logs, req, last, otpStore>>

TxId == "T1"

NoResponse == [op |-> "none", caller |-> "", http |-> 0, msg |-> ""]
Resp(op, caller, http, msg) ==
  [op |-> op, caller |-> caller, http |-> http, msg |-> msg]
IsSuccess(resp) == resp.http = 200 \/ resp.http = 201

NewRow(sender, receiver, amount, key, iv) ==
  [id |-> TxId, sender_id |-> sender, receiver_id |-> receiver,
   amount |-> amount, status |-> "INITIATED",
   encryption_key |-> key, iv |-> iv,
   qr1_encrypted_data |-> Null, qr1_generated_at |-> Null,
   qr1_expires_at |-> Null,
   qr2_encrypted_data |-> Null, qr2_generated_at |-> Null,
   qr2_expires_at |-> Null,
   otp_sent_at |-> Null, otp_verified_at |-> Null, otp_attempts |-> 0,
   completed_at |-> Null]

QRPayload(id, type, amount, sender, receiver, t, window, nonce) ==
  [transactionId |-> id, type |-> type, amount |-> amount,
   senderId |-> sender, receiverId |-> receiver,
   timestamp |-> t, expiresAt |-> t + window, nonce |-> nonce]

\* prisma update: the named columns are overwritten, {increment: 1} adds one.
ApplyUpdate(row, data) ==
  [f \in DOMAIN row |->
     IF f = "otp_attempts" /\ "otp_attempts_increment" \in DOMAIN data
     THEN row[f] + data.otp_attempts_increment
     ELSE IF f \in DOMAIN data THEN data[f] ELSE row[f]]

HasRow == transactions # <<>>
Row == transactions[1]

Phone(user) == <<"phone", user>>

\* The two route modules that declare `const otpStore = new Map()`, and the
\* empty Map: no entry under any phone number.
AuthModules == {"send-otp", "verify-otp"}
Callers == Users \cup {"U0"}
NewMap == [phoneNumber \in {Phone(u) : u \in Callers} |-> Null]

\* The requests in flight, and the three things a step does to them.
InFlight == BagToSet(req)
CanStart == BagCardinality(req) < MaxInflight
Start(r) == req' = req (+) SetToBag({r})
Continue(r, r2) == req' = (req (-) SetToBag({r})) (+) SetToBag({r2})
Finish(r) == req' = req (-) SetToBag({r})

\* A request waiting for prisma.transactions.update, then returning resp.
Update(op, caller, data, resp) ==
  [op |-> op, caller |-> caller, pc |-> "update", data |-> data, resp |-> resp]

\* A handler's run up to its first write: it returns at once, or issues a write.
Reject(resp) == [issue |-> FALSE, resp |-> resp]
Issue(data, resp) == [issue |-> TRUE, data |-> data, resp |-> resp]

\* The handler of a new request ran up to `out`.
Begin(out) ==
  IF out.issue
  THEN /\ Start(Update(out.resp.op, out.resp.caller, out.data, out.resp))
       /\ last' = NoResponse
  ELSE /\ last' = out.resp
       /\ UNCHANGED req

\* ------------------------------------------------ POST /transactions/initiate
Initiate ==
  /\ CanStart
  /\ ~HasRow
  /\ \E sender \in Senders, receiver \in Receivers, amount \in Amounts,
        encryptionKey \in GeneratedKeys, iv \in GeneratedIVs, nonce \in Nonces :
       LET qr1Data == QRPayload(TxId, "qr1", amount, sender, receiver, now,
                                QR1_EXPIRY_MIN, nonce)
           encryptedData == generateQR(qr1Data, encryptionKey, iv, now, nonce)
       IN /\ transactions' =
               <<NewRow(sender, receiver, amount, Substring16(encryptionKey), iv)>>
          /\ Start(Update("initiate", sender,
                          [qr1_encrypted_data |-> Some(encryptedData),
                           qr1_generated_at |-> Stamped(now),
                           qr1_expires_at |-> Some(qr1Data.expiresAt)],
                          Resp("initiate", sender, 201, "Transaction initiated. Show QR code to receiver.")))
  /\ last' = NoResponse
  /\ UNCHANGED <<otpStore, now, otp_logs>>

\* ------------------------------------------------ POST /transactions/scan-qr1
ScanQR1Handler(table, caller, qrCode, t) ==
  LET R(http, msg) == Resp("scanQR1", caller, http, msg) IN
  IF table = <<>> \/ table[1].qr1_encrypted_data # Some(qrCode)
     \/ table[1].status # "INITIATED"
  THEN Reject(R(404, "Invalid or expired QR code"))
  ELSE IF table[1].receiver_id # caller
  THEN Reject(R(403, "Unauthorized to scan this QR code"))
  ELSE LET v == validateQR(qrCode, table[1].encryption_key, table[1].iv, t) IN
    IF v.err # "" THEN Reject(R(500, v.err))
    ELSE IF isExpired(v.data, t)
    THEN Issue([status |-> "FAILED"], R(400, "QR code has expired"))
    ELSE Issue([status |-> "QR1_SCANNED"], R(200, "QR code validated. Ready to generate QR2."))

\* The blobs a client can present: the ones on the row and one made elsewhere.
ForgedBlob ==
  encrypt(QRPayload("T0", "qr1", 1, "U3", "U3", 0, 0, "n0"),
          [head |-> "h0", tail |-> "t0"], "iv0")

KnownBlobs ==
  {ForgedBlob}
    \cup (IF HasRow /\ IsSet(Row.qr1_encrypted_data)
          THEN {Val(Row.qr1_encrypted_data)} ELSE {})
    \cup (IF HasRow /\ IsSet(Row.qr2_encrypted_data)
          THEN {Val(Row.qr2_encrypted_data)} ELSE {})

ScanQR1 ==
  /\ CanStart
  /\ \E caller \in Users, qrCode \in KnownBlobs :
       Begin(ScanQR1Handler(transactions, caller, qrCode, now))
  /\ UNCHANGED <<otpStore, now, transactions, otp_logs>>

\* --------------------------------------------- POST /transactions/generate-qr2
GenerateQR2Handler(table, caller, t, nonce) ==
  LET R(http, msg) == Resp("generateQR2", caller, http, msg) IN
  IF table = <<>> THEN Reject(R(404, "Transaction not found"))
  ELSE IF table[1].receiver_id # caller THEN Reject(R(403, "Unauthorized"))
  ELSE IF table[1].status # "QR1_SCANNED"
  THEN Reject(R(400, "Invalid transaction status"))
  ELSE IF ~IsSet(table[1].qr1_generated_at)
  THEN Reject(R(400, "QR1 must be generated before QR2"))
  ELSE
    LET qr2Data == QRPayload(table[1].id, "qr2", table[1].amount,
                             table[1].sender_id, table[1].receiver_id, t,
                             QR2_EXPIRY_MIN, nonce)
        encryptedData ==
          generateQR(qr2Data, table[1].encryption_key, table[1].iv, t, nonce)
    IN Issue([qr2_encrypted_data |-> Some(encryptedData),
              qr2_generated_at |-> Stamped(t),
              qr2_expires_at |-> Some(qr2Data.expiresAt),
              status |-> "QR2_GENERATED"],
             R(200, "QR2 generated successfully. Show to sender."))

GenerateQR2 ==
  /\ CanStart
  /\ \E caller \in Users, nonce \in Nonces :
       Begin(GenerateQR2Handler(transactions, caller, now, nonce))
  /\ UNCHANGED <<otpStore, now, transactions, otp_logs>>

\* ------------------------------------------------ POST /transactions/scan-qr2
ScanQR2Handler(table, caller, qrCode, t) ==
  LET R(http, msg) == Resp("scanQR2", caller, http, msg) IN
  IF table = <<>> \/ table[1].qr2_encrypted_data # Some(qrCode)
     \/ table[1].status # "QR2_GENERATED"
  THEN Reject(R(404, "Invalid or expired QR code"))
  ELSE IF table[1].sender_id # caller
  THEN Reject(R(403, "Unauthorized to scan this QR code"))
  ELSE LET v == validateQR(qrCode, table[1].encryption_key, table[1].iv, t) IN
    IF v.err # "" THEN Reject(R(500, v.err))
    ELSE IF isExpired(v.data, t)
    THEN Issue([status |-> "FAILED"], R(400, "QR code has expired"))
    ELSE Issue([status |-> "QR2_SCANNED"], R(200, "QR2 validated. Ready for OTP verification."))

ScanQR2 ==
  /\ CanStart
  /\ \E caller \in Users, qrCode \in KnownBlobs :
       Begin(ScanQR2Handler(transactions, caller, qrCode, now))
  /\ UNCHANGED <<otpStore, now, transactions, otp_logs>>

\* ---------------------------------------------- POST /transactions/[id]/complete
\* The complete handler without its test of otp_verified_at.
CompleteHandler_NoOtpTest(table, caller, t) ==
  LET R(http, msg) == Resp("complete", caller, http, msg) IN
  IF table = <<>> THEN Reject(R(404, "Transaction not found"))
  ELSE IF table[1].sender_id # caller
  THEN Reject(R(403, "Unauthorized - Only sender can complete payment"))
  ELSE IF table[1].status # "OTP_VERIFIED"
  THEN Reject(R(400, "Cannot complete payment. Transaction must be in OTP_VERIFIED status. Current status: "
                      \o table[1].status))
  ELSE IF ~IsSet(table[1].qr1_generated_at)
  THEN Reject(R(400, "QR1 was not generated"))
  ELSE IF ~IsSet(table[1].qr2_generated_at)
  THEN Reject(R(400, "QR2 was not generated"))
  ELSE Issue([status |-> "COMPLETED", completed_at |-> Stamped(t)],
             R(200, "Payment completed successfully!"))

\* The complete handler without its test of the caller.
CompleteHandler_AnyCaller(table, caller, t) ==
  LET R(http, msg) == Resp("complete", caller, http, msg) IN
  IF table = <<>> THEN Reject(R(404, "Transaction not found"))
  ELSE IF table[1].status # "OTP_VERIFIED"
  THEN Reject(R(400, "Cannot complete payment. Transaction must be in OTP_VERIFIED status. Current status: "
                      \o table[1].status))
  ELSE IF ~IsSet(table[1].qr1_generated_at)
  THEN Reject(R(400, "QR1 was not generated"))
  ELSE IF ~IsSet(table[1].qr2_generated_at)
  THEN Reject(R(400, "QR2 was not generated"))
  ELSE IF ~IsSet(table[1].otp_verified_at)
  THEN Reject(R(400, "OTP was not verified"))
  ELSE Issue([status |-> "COMPLETED", completed_at |-> Stamped(t)],
             R(200, "Payment completed successfully!"))

CompleteHandler(table, caller, t) ==
  LET R(http, msg) == Resp("complete", caller, http, msg) IN
  IF table = <<>> THEN Reject(R(404, "Transaction not found"))
  ELSE IF table[1].sender_id # caller
  THEN Reject(R(403, "Unauthorized - Only sender can complete payment"))
  ELSE IF table[1].status # "OTP_VERIFIED"
  THEN Reject(R(400, "Cannot complete payment. Transaction must be in OTP_VERIFIED status. Current status: "
                      \o table[1].status))
  ELSE IF ~IsSet(table[1].qr1_generated_at)
  THEN Reject(R(400, "QR1 was not generated"))
  ELSE IF ~IsSet(table[1].qr2_generated_at)
  THEN Reject(R(400, "QR2 was not generated"))
  ELSE IF ~IsSet(table[1].otp_verified_at)
  THEN Reject(R(400, "OTP was not verified"))
  ELSE Issue([status |-> "COMPLETED", completed_at |-> Stamped(t)],
             R(200, "Payment completed successfully!"))

Complete ==
  /\ CanStart
  /\ \E caller \in Users : Begin(CompleteHandler(transactions, caller, now))
  /\ UNCHANGED <<otpStore, now, transactions, otp_logs>>

\* ------------------------------------------- PATCH /transactions/[id] (cancel)
CancelHandler(table, caller, action) ==
  LET R(http, msg) == Resp("cancel", caller, http, msg) IN
  IF table = <<>> THEN Reject(R(404, "Transaction not found"))
  ELSE IF table[1].sender_id # caller THEN Reject(R(403, "Unauthorized"))
  ELSE IF action = "cancel"
  THEN IF table[1].status = "COMPLETED"
       THEN Reject(R(400, "Cannot cancel completed transaction"))
       ELSE Issue([status |-> "CANCELLED"],
                  R(200, "Transaction cancelled successfully"))
  ELSE Reject(R(400, "Invalid action"))

Cancel ==
  /\ CanStart
  /\ \E caller \in Users, action \in {"cancel", "other"} :
       Begin(CancelHandler(transactions, caller, action))
  /\ UNCHANGED <<otpStore, now, transactions, otp_logs>>

\* ------------------------------------------------------ the database's writes
\* prisma.transactions.update of request r reaches the row; the handler then
\* returns its response.
TxUpdate(r) ==
  /\ r.pc = "update"
  /\ HasRow
  /\ transactions' = <<ApplyUpdate(Row, r.data)>>
  /\ last' = r.resp
  /\ Finish(r)
  /\ UNCHANGED <<otpStore, now, otp_logs>>

\* Some request's pending update reaches the row.
Write == \E r \in InFlight : TxUpdate(r)

\* verify-otp runs its update and the writes after it inside the try block of
\* OTPService.verifyOTP: what they throw is caught as otpError, the catch
\* block increments otp_attempts and answers 400 with the error's text.
CaughtAsOtpError(r) ==
  [op |-> r.op, caller |-> r.caller, pc |-> "update",
   data |-> [otp_attempts_increment |-> 1],
   resp |-> Resp(r.op, r.caller, 400, "Database error")]

\* The update of a success path reaches the row and the create of the log row
\* or of the notification after it throws: the handler's catch block answers
\* 500, verify-otp goes to its inner catch block.
WriteThenLogFails ==
  \E r \in InFlight :
    /\ r.pc = "update"
    /\ IsSuccess(r.resp)
    /\ HasRow
    /\ transactions' = <<ApplyUpdate(Row, r.data)>>
    /\ IF r.op \in {"verifyOTP", "verifyOTPLegacy"}
       THEN /\ Continue(r, CaughtAsOtpError(r))
            /\ last' = NoResponse
       ELSE /\ last' = Resp(r.op, r.caller, 500, "Database error")
            /\ Finish(r)
    /\ UNCHANGED <<otpStore, now, otp_logs>>

Tick ==
  /\ now + TickMinutes <= MaxTime
  /\ now' = now + TickMinutes
  /\ last' = NoResponse
  /\ UNCHANGED <<otpStore, transactions, otp_logs, req>>

\* ------------------------------------------------ POST /transactions/send-otp
\* The send-otp handler without its test of the status.
SendOTPHandler_NoStatusTest(table, caller) ==
  LET R(http, msg) == Resp("sendOTP", caller, http, msg) IN
  IF table = <<>> THEN Reject(R(404, "Transaction not found"))
  ELSE IF table[1].sender_id # caller THEN Reject(R(403, "Unauthorized"))
  ELSE IF ~IsSet(table[1].qr2_generated_at)
  THEN Reject(R(400, "QR2 must be generated before sending OTP"))
  ELSE IF Phone(caller) = Null THEN Reject(R(400, "Phone number not found"))
  ELSE Issue(Null, R(200, "OTP sent successfully"))

SendOTPHandler(table, caller) ==
  LET R(http, msg) == Resp("sendOTP", caller, http, msg) IN
  IF table = <<>> THEN Reject(R(404, "Transaction not found"))
  ELSE IF table[1].sender_id # caller THEN Reject(R(403, "Unauthorized"))
  ELSE IF table[1].status # "QR2_SCANNED"
  THEN Reject(R(400, "Invalid transaction status"))
  ELSE IF ~IsSet(table[1].qr2_generated_at)
  THEN Reject(R(400, "QR2 must be generated before sending OTP"))
  ELSE IF Phone(caller) = Null THEN Reject(R(400, "Phone number not found"))
  ELSE Issue(Null, R(200, "OTP sent successfully"))

\* OTPService.sendOTP up to prisma.otp_logs.create.
NewOtpLog(phoneNumber, otp, purpose, transactionId, t) ==
  [phone_number |-> phoneNumber, otp_hash |-> hashOTP(otp), purpose |-> purpose,
   transaction_id |-> transactionId, is_verified |-> FALSE,
   verified_at |-> Null, attempts |-> 0, expires_at |-> t + OTP_EXPIRY_MIN,
   created_at |-> t]

\* The otp_logs rows written and about to be written.
OtpLogsDue ==
  Len(otp_logs)
    + BagCardinality([q \in {r \in InFlight : r.pc = "otp_create"} |-> req[q]])

SendOTP ==
  /\ CanStart
  /\ \E caller \in Users, otp \in Codes :
       LET out == SendOTPHandler(transactions, caller) IN
         IF out.issue
         THEN /\ OtpLogsDue < MaxOtpLogs
              /\ Start([op |-> "sendOTP", caller |-> caller, pc |-> "otp_create",
                        otpData |-> NewOtpLog(Phone(caller), otp, "transaction",
                                              TxId, now),
                        resp |-> out.resp])
              /\ last' = NoResponse
         ELSE Begin(out)
  /\ UNCHANGED <<otpStore, now, transactions, otp_logs>>

\* send-otp while otp_logs has room for one row more than SendOTP allows.
SendOTPAgain ==
  /\ CanStart
  /\ \E caller \in Users, otp \in Codes :
       LET out == SendOTPHandler(transactions, caller) IN
         IF out.issue
         THEN /\ OtpLogsDue < MaxOtpLogs + 1
              /\ Start([op |-> "sendOTP", caller |-> caller, pc |-> "otp_create",
                        otpData |-> NewOtpLog(Phone(caller), otp, "transaction",
                                              TxId, now),
                        resp |-> out.resp])
              /\ last' = NoResponse
         ELSE Begin(out)
  /\ UNCHANGED <<otpStore, now, transactions, otp_logs>>

\* The update without its otp_sent_at column.
SentUpdate_NoStamp(t) == [status |-> "OTP_SENT"]

\* The handler's update of the transaction after OTPService.sendOTP.
SentUpdate(t) == [status |-> "OTP_SENT", otp_sent_at |-> Stamped(t)]

\* prisma.otp_logs.create reaches the table; the handler goes on to update the
\* transaction.
OtpCreate ==
  \E r \in InFlight :
    /\ r.pc = "otp_create"
    /\ otp_logs' = Append(otp_logs, r.otpData)
    /\ Continue(r, Update("sendOTP", r.caller, SentUpdate(now), r.resp))
    /\ last' = NoResponse
    /\ UNCHANGED <<otpStore, now, transactions>>

\* ---------------------------------------------- POST /transactions/verify-otp
\* The handler with the limit test loosened to "more than three".
VerifyOTPHandler_Over(table, caller, otp) ==
  LET R(http, msg) == Resp("verifyOTP", caller, http, msg) IN
  IF table = <<>> THEN Reject(R(404, "Transaction not found"))
  ELSE IF table[1].sender_id # caller THEN Reject(R(403, "Unauthorized"))
  ELSE IF table[1].status # "OTP_SENT"
  THEN Reject(R(400, "Invalid transaction status"))
  ELSE IF ~IsSet(table[1].qr1_generated_at)
  THEN Reject(R(400, "QR1 must be scanned before verifying OTP"))
  ELSE IF ~IsSet(table[1].qr2_generated_at)
  THEN Reject(R(400, "QR2 must be scanned before verifying OTP"))
  ELSE IF table[1].otp_attempts > 3
  THEN Issue([status |-> "FAILED"], R(400, "Maximum OTP attempts exceeded"))
  ELSE IF Phone(caller) = Null THEN Reject(R(400, "Phone number not found"))
  ELSE Issue(Null, R(200, "OTP verified successfully! Complete payment to finish transaction."))

VerifyOTPHandler(table, caller, otp) ==
  LET R(http, msg) == Resp("verifyOTP", caller, http, msg) IN
  IF table = <<>> THEN Reject(R(404, "Transaction not found"))
  ELSE IF table[1].sender_id # caller THEN Reject(R(403, "Unauthorized"))
  ELSE IF table[1].status # "OTP_SENT"
  THEN Reject(R(400, "Invalid transaction status"))
  ELSE IF ~IsSet(table[1].qr1_generated_at)
  THEN Reject(R(400, "QR1 must be scanned before verifying OTP"))
  ELSE IF ~IsSet(table[1].qr2_generated_at)
  THEN Reject(R(400, "QR2 must be scanned before verifying OTP"))
  ELSE IF table[1].otp_attempts >= 3
  THEN Issue([status |-> "FAILED"], R(400, "Maximum OTP attempts exceeded"))
  ELSE IF Phone(caller) = Null THEN Reject(R(400, "Phone number not found"))
  ELSE Issue(Null, R(200, "OTP verified successfully! Complete payment to finish transaction."))

VerifyOTP ==
  /\ CanStart
  /\ \E caller \in Users, otp \in Codes :
       LET out == VerifyOTPHandler(transactions, caller, otp) IN
         IF out.issue /\ out.data = Null
         THEN /\ Start([op |-> "verifyOTP", caller |-> caller, pc |-> "otp_find",
                        otp |-> otp, resp |-> out.resp])
              /\ last' = NoResponse
         ELSE Begin(out)
  /\ UNCHANGED <<otpStore, now, transactions, otp_logs>>

\* The first findFirst without its otp_hash condition.
OtpMatches_AnyCode(logs, phoneNumber, otp, purpose, transactionId, t) ==
  {i \in 1..Len(logs) :
     /\ logs[i].phone_number = phoneNumber
     /\ logs[i].purpose = purpose
     /\ logs[i].is_verified = FALSE
     /\ logs[i].expires_at >= t
     /\ logs[i].transaction_id = transactionId}

\* OTPService.verifyOTP: the first findFirst (ordered by created_at desc).
OtpMatches(logs, phoneNumber, otp, purpose, transactionId, t) ==
  {i \in 1..Len(logs) :
     /\ logs[i].phone_number = phoneNumber
     /\ logs[i].otp_hash = hashOTP(otp)
     /\ logs[i].purpose = purpose
     /\ logs[i].is_verified = FALSE
     /\ logs[i].expires_at >= t
     /\ logs[i].transaction_id = transactionId}

\* created_at desc; rows created in the same minute come latest-first.
Latest(logs, ids) ==
  CHOOSE i \in ids :
    \A j \in ids : logs[j].created_at < logs[i].created_at
                   \/ (logs[j].created_at = logs[i].created_at /\ j <= i)

\* The outcome of the try block of OTPService.verifyOTP up to its update.
OtpCheck(logs, phoneNumber, otp, purpose, transactionId, t) ==
  LET ids == OtpMatches(logs, phoneNumber, otp, purpose, transactionId, t) IN
    IF ids = {} THEN [err |-> "Invalid or expired OTP", id |-> 0]
    ELSE LET i == Latest(logs, ids) IN
      IF logs[i].attempts >= MAX_ATTEMPTS
      THEN [err |-> "Maximum OTP attempts exceeded", id |-> i]
      ELSE IF logs[i].expires_at < t
      THEN [err |-> "OTP has expired", id |-> i]
      ELSE [err |-> "", id |-> i]

OtpFind ==
  \E r \in InFlight :
    /\ r.pc = "otp_find"
    /\ LET c == OtpCheck(otp_logs, Phone(r.caller), r.otp, "transaction", TxId,
                         now)
       IN Continue(r, IF c.err = ""
                      THEN [op |-> r.op, caller |-> r.caller, pc |-> "otp_mark",
                            otp |-> r.otp, id |-> c.id, resp |-> r.resp]
                      ELSE [op |-> r.op, caller |-> r.caller, pc |-> "otp_find2",
                            otp |-> r.otp, err |-> c.err, resp |-> r.resp])
    /\ last' = NoResponse
    /\ UNCHANGED <<otpStore, now, transactions, otp_logs>>

\* prisma.otp_logs.update marks the record verified; the handler goes on to
\* update the transaction to OTP_VERIFIED.
VerifiedUpdate(t) ==
  [status |-> "OTP_VERIFIED", otp_verified_at |-> Stamped(t)]

\* The update of the second verify-otp variant (verify-otp/route.ts).
LegacyVerifiedUpdate(t) ==
  [status |-> "COMPLETED", otp_verified_at |-> Stamped(t),
   completed_at |-> Stamped(t)]

OtpMarkVerified ==
  \E r \in InFlight :
    /\ r.pc = "otp_mark"
    /\ otp_logs' = [otp_logs EXCEPT ![r.id] =
                      [@ EXCEPT !.is_verified = TRUE, !.verified_at = Stamped(now)]]
    /\ Continue(r, Update(r.op, r.caller,
                          IF r.op = "verifyOTPLegacy"
                          THEN LegacyVerifiedUpdate(now) ELSE VerifiedUpdate(now),
                          r.resp))
    /\ last' = NoResponse
    /\ UNCHANGED <<otpStore, now, transactions>>

\* The catch block of OTPService.verifyOTP: findFirst without an order, by the
\* hash of the presented code.
OtpIncrementMatches(logs, phoneNumber, otp, purpose) ==
  {i \in 1..Len(logs) :
     /\ logs[i].phone_number = phoneNumber
     /\ logs[i].otp_hash = hashOTP(otp)
     /\ logs[i].purpose = purpose
     /\ logs[i].is_verified = FALSE}

\* The handler's catch block: the transaction's counter goes up by one.
AttemptsUpdate == [otp_attempts_increment |-> 1]

\* The failed request answered with the fallback text instead of the error's.
FailedVerify_Fallback(r) ==
  [op |-> r.op, caller |-> r.caller, pc |-> "update", data |-> AttemptsUpdate,
   resp |-> [r.resp EXCEPT !.http = 400, !.msg = "Failed to verify OTP"],
   otp |-> r.otp]

\* The request that failed in OTPService.verifyOTP; `otp` is still in scope.
FailedVerify(r) ==
  [op |-> r.op, caller |-> r.caller, pc |-> "update", data |-> AttemptsUpdate,
   resp |-> [r.resp EXCEPT !.http = 400, !.msg = r.err], otp |-> r.otp]

OtpFindForIncrement ==
  \E r \in InFlight :
    /\ r.pc = "otp_find2"
    /\ LET ids == OtpIncrementMatches(otp_logs, Phone(r.caller), r.otp,
                                      "transaction")
       IN IF ids = {}
          THEN Continue(r, FailedVerify(r))
          ELSE \E i \in ids :
                 Continue(r, [op |-> r.op, caller |-> r.caller, pc |-> "otp_inc",
                              otp |-> r.otp, id |-> i, err |-> r.err,
                              resp |-> r.resp])
    /\ last' = NoResponse
    /\ UNCHANGED <<otpStore, now, transactions, otp_logs>>

OtpIncrement ==
  \E r \in InFlight :
    /\ r.pc = "otp_inc"
    /\ otp_logs' = [otp_logs EXCEPT ![r.id] = [@ EXCEPT !.attempts = @ + 1]]
    /\ Continue(r, FailedVerify(r))
    /\ last' = NoResponse
    /\ UNCHANGED <<otpStore, now, transactions>>

\* ------------------------------------------------------------ specification
\* The row of a transaction whose QR1 has been scanned.
SeedRow(sender, receiver, amount, encryptionKey, iv, nonce) ==
  [NewRow(sender, receiver, amount, Substring16(encryptionKey), iv) EXCEPT
     !.status = "QR1_SCANNED",
     !.qr1_encrypted_data =
        Some(generateQR(QRPayload(TxId, "qr1", amount, sender, receiver, 0,
                                  QR1_EXPIRY_MIN, nonce),
                        encryptionKey, iv, 0, nonce)),
     !.qr1_generated_at = Stamped(0),
     !.qr1_expires_at = Some(QR1_EXPIRY_MIN)]

Init ==
  /\ now = 0
  /\ \/ transactions = <<>>
     \/ \E sender \in Senders, receiver \in Receivers, amount \in Amounts,
           encryptionKey \in GeneratedKeys, iv \in GeneratedIVs,
           nonce \in Nonces :
           transactions =
             <<SeedRow(sender, receiver, amount, encryptionKey, iv, nonce)>>
  /\ otp_logs = <<>>
  /\ req = EmptyBag
  /\ last = NoResponse
  /\ otpStore = [m \in AuthModules |-> NewMap]

Next ==
  \/ Tick
  \/ Initiate
  \/ ScanQR1
  \/ GenerateQR2
  \/ ScanQR2
  \/ SendOTP
  \/ VerifyOTP
  \/ Complete
  \/ Cancel
  \/ OtpCreate
  \/ OtpFind
  \/ OtpMarkVerified
  \/ OtpFindForIncrement
  \/ OtpIncrement
  \/ Write
  \/ WriteThenLogFails

Spec == Init /\ [][Next]_vars

\* ------------------------- POST /transactions/verify-otp, the second variant
VerifyOTPLegacyHandler(table, caller, otp) ==
  LET R(http, msg) == Resp("verifyOTPLegacy", caller, http, msg) IN
  IF table = <<>> THEN Reject(R(404, "Transaction not found"))
  ELSE IF table[1].sender_id # caller THEN Reject(R(403, "Unauthorized"))
  ELSE IF table[1].status # "OTP_SENT"
  THEN Reject(R(400, "Invalid transaction status"))
  ELSE IF table[1].otp_attempts >= 3
  THEN Issue([status |-> "FAILED"], R(400, "Maximum OTP attempts exceeded"))
  ELSE IF Phone(caller) = Null THEN Reject(R(400, "Phone number not found"))
  ELSE Issue(Null, R(200, "Transaction completed successfully!"))

VerifyOTPLegacy ==
  /\ CanStart
  /\ \E caller \in Users, otp \in Codes :
       LET out == VerifyOTPLegacyHandler(transactions, caller, otp) IN
         IF out.issue /\ out.data = Null
         THEN /\ Start([op |-> "verifyOTPLegacy", caller |-> caller,
                        pc |-> "otp_find", otp |-> otp, resp |-> out.resp])
              /\ last' = NoResponse
         ELSE Begin(out)
  /\ UNCHANGED <<otpStore, now, transactions, otp_logs>>

\* The deployment in which both verify-otp variants of the repository serve.
\* The two verify-otp route files serve the same path: a build holds one of
\* them.  This is the API with the second one.
LegacyNext ==
  \/ Tick
  \/ Initiate
  \/ ScanQR1
  \/ GenerateQR2
  \/ ScanQR2
  \/ SendOTP
  \/ VerifyOTPLegacy
  \/ Complete
  \/ Cancel
  \/ OtpCreate
  \/ OtpFind
  \/ OtpMarkVerified
  \/ OtpFindForIncrement
  \/ OtpIncrement
  \/ Write
  \/ WriteThenLogFails

LegacySpec == Init /\ [][LegacyNext]_vars

\* The API without verify-otp requests and with a second row of otp_logs.
ResendNext ==
  \/ Tick
  \/ Initiate
  \/ ScanQR1
  \/ GenerateQR2
  \/ ScanQR2
  \/ SendOTPAgain
  \/ Complete
  \/ Cancel
  \/ OtpCreate
  \/ Write
  \/ WriteThenLogFails

ResendSpec == Init /\ [][ResendNext]_vars

\* ------------------------------------------------ GET /transactions/[id]
\* findUnique without a select returns every column of the row; apiResponse
\* serialises the object it is given.
GetTransactionHandler(table, caller) ==
  LET R(http, msg) == Resp("getTransaction", caller, http, msg) IN
  IF table = <<>> THEN R(404, "Transaction not found")
  ELSE IF table[1].sender_id # caller /\ table[1].receiver_id # caller
  THEN R(403, "Unauthorized")
  ELSE [op |-> "getTransaction", caller |-> caller, http |-> 200, msg |-> "",
        transaction |-> table[1]]

GetTransaction ==
  /\ \E caller \in Users : last' = GetTransactionHandler(transactions, caller)
  /\ UNCHANGED <<otpStore, now, transactions, otp_logs, req>>

\* The API up to the second scan, with the read of a transaction by id.
ReadNext ==
  \/ Tick
  \/ Initiate
  \/ ScanQR1
  \/ GenerateQR2
  \/ ScanQR2
  \/ Cancel
  \/ Write
  \/ WriteThenLogFails
  \/ GetTransaction

ReadSpec == Init /\ [][ReadNext]_vars

\* ------------------------------------- POST /auth/send-otp, /auth/verify-otp
\* send-otp: the account is looked up, the code is put under the phone number
\* in the module's otpStore.
AuthSendOTP ==
  /\ \E user \in Callers, otp \in Codes :
       IF user \notin Users
       THEN /\ last' = Resp("authSendOTP", user, 404,
                            "No account found with this phone number")
            /\ UNCHANGED otpStore
       ELSE /\ otpStore' =
                 [otpStore EXCEPT !["send-otp"][Phone(user)] =
                    Some([otp |-> otp, expires |-> now + LOGIN_OTP_EXPIRY_MIN])]
            /\ last' = Resp("authSendOTP", user, 200,
                            "OTP sent to your phone via SMS")
  /\ UNCHANGED <<now, transactions, otp_logs, req>>

\* verify-otp on the Map it is given: the answer and the Map afterwards.
AuthVerifyOTPHandler(store, user, otp, t) ==
  LET R(http, msg) == Resp("authVerifyOTP", user, http, msg)
      storedOTP == store[Phone(user)]
      deleted == [store EXCEPT ![Phone(user)] = Null]
  IN IF ~IsSet(storedOTP)
     THEN [resp |-> R(400, "OTP not found or expired. Please request a new OTP."),
           store |-> store]
     ELSE IF t > Val(storedOTP).expires
     THEN [resp |-> R(400, "OTP expired. Please request a new OTP."),
           store |-> deleted]
     ELSE IF Val(storedOTP).otp # otp
     THEN [resp |-> R(400, "Invalid OTP. Please try again."), store |-> store]
     ELSE IF user \notin Users
     THEN [resp |-> R(404, "User not found"), store |-> deleted]
     ELSE [resp |-> R(200, ""), store |-> deleted]

\* verify-otp reads and deletes in the otpStore of its own module.
AuthVerifyOTP ==
  /\ \E user \in Callers, otp \in Codes :
       LET out == AuthVerifyOTPHandler(otpStore["verify-otp"], user, otp, now)
       IN /\ otpStore' = [otpStore EXCEPT !["verify-otp"] = out.store]
          /\ last' = out.resp
  /\ UNCHANGED <<now, transactions, otp_logs, req>>

AuthInit ==
  /\ now = 0
  /\ transactions = <<>>
  /\ otp_logs = <<>>
  /\ req = EmptyBag
  /\ last = NoResponse
  /\ otpStore = [m \in AuthModules |-> NewMap]

AuthNext == AuthSendOTP \/ AuthVerifyOTP \/ Tick

\* The two login routes on their own.
AuthSpec == AuthInit /\ [][AuthNext]_vars

\* ------------------------------------------------- the helpers on their own
\* A call of a helper is a record in req: its arguments and what it returned.
Returned(call) == req' = SetToBag({call})

Return ==
  /\ req # EmptyBag
  /\ req' = EmptyBag
  /\ UNCHANGED <<otpStore, now, transactions, otp_logs, last>>

\* The keys and IVs a caller can pass: the generated ones, the stored
\* 16-character key, another IV.
AnyKeys == GeneratedKeys \cup {Substring16(k) : k \in GeneratedKeys}
AnyIVs == GeneratedIVs \cup {"iv0"}

\* The payloads that initiate and generate-qr2 hand to generateQR.
Payloads ==
  {QRPayload(TxId, type, amount, sender, receiver, 0, 0, "") :
     type \in {"qr1", "qr2"}, amount \in Amounts, sender \in Senders,
     receiver \in Receivers}

CallGenerateQR ==
  /\ req = EmptyBag
  /\ \E data \in Payloads, key \in AnyKeys, iv \in AnyIVs, nonce \in Nonces :
       Returned([op |-> "generateQR", pc |-> "returned", data |-> data,
                 key |-> key, iv |-> iv, t |-> now,
                 encryptedData |-> generateQR(data, key, iv, now, nonce)])
  /\ UNCHANGED <<otpStore, now, transactions, otp_logs, last>>

CallValidateQR ==
  /\ \E g \in InFlight, key \in AnyKeys, iv \in AnyIVs :
       /\ g.op = "generateQR"
       /\ Returned([op |-> "validateQR", pc |-> "returned", generated |-> g,
                    key |-> key, iv |-> iv, t |-> now,
                    result |-> validateQR(g.encryptedData, key, iv, now)])
  /\ UNCHANGED <<otpStore, now, transactions, otp_logs, last>>

\* Any number of minutes passes between two calls.
Elapse ==
  /\ \E d \in 1..TickMinutes : now + d <= MaxTime /\ now' = now + d
  /\ UNCHANGED <<otpStore, transactions, otp_logs, req, last>>

QRInit ==
  /\ now = 0
  /\ transactions = <<>>
  /\ otp_logs = <<>>
  /\ req = EmptyBag
  /\ last = NoResponse
  /\ otpStore = [m \in AuthModules |-> NewMap]

QRNext == CallGenerateQR \/ CallValidateQR \/ Elapse \/ Return

\* QRService.generateQR and validateQR called on their own.
QRSpec == QRInit /\ [][QRNext]_vars

\* Every content of the columns that the status helper reads.
TxRecords ==
  {[NewRow(sender, receiver, amount, Substring16(key), iv)
      EXCEPT !.status = s, !.qr1_generated_at = a, !.qr2_generated_at = b,
             !.otp_sent_at = c, !.otp_verified_at = d] :
     sender \in Senders, receiver \in Receivers, amount \in Amounts,
     key \in GeneratedKeys, iv \in GeneratedIVs, s \in Statuses,
     a \in {Null, Stamped(0)}, b \in {Null, Stamped(0)},
     c \in {Null, Stamped(0)}, d \in {Null, Stamped(0)}}

CallValidateStatusTransition ==
  /\ req = EmptyBag
  /\ HasRow
  /\ \E targetStatus \in Statuses :
       Returned([op |-> "validateStatusTransition", pc |-> "returned",
                 transaction |-> Row, targetStatus |-> targetStatus,
                 result |-> validateStatusTransition(Row, targetStatus)])
  /\ UNCHANGED <<otpStore, now, transactions, otp_logs, last>>

CallGetNextExpectedStatus ==
  /\ req = EmptyBag
  /\ HasRow
  /\ Returned([op |-> "getNextExpectedStatus", pc |-> "returned",
               currentStatus |-> Row.status,
               result |-> getNextExpectedStatus(Row.status)])
  /\ UNCHANGED <<otpStore, now, transactions, otp_logs, last>>

\* The caller moves the record to the status that the helper named.
FollowNextExpected ==
  /\ \E r \in InFlight :
       /\ r.op = "getNextExpectedStatus"
       /\ IsSet(r.result)
       /\ transactions' = <<[Row EXCEPT !.status = Val(r.result)]>>
  /\ req' = EmptyBag
  /\ UNCHANGED <<otpStore, now, otp_logs, last>>

StatusInit ==
  /\ now = 0
  /\ transactions \in {<<tx>> : tx \in TxRecords}
  /\ otp_logs = <<>>
  /\ req = EmptyBag
  /\ last = NoResponse
  /\ otpStore = [m \in AuthModules |-> NewMap]

StatusNext ==
  \/ CallValidateStatusTransition
  \/ CallGetNextExpectedStatus
  \/ FollowNextExpected
  \/ Return

\* The helpers of transaction-status.ts called on their own.
StatusSpec == StatusInit /\ [][StatusNext]_vars

\* ------------------------------------------------------------------ claims
\* The QR blob on the row decrypts, under the row's key and IV, to a payload
\* that has expired.
StoredBlobExpired(blob) ==
  /\ IsSet(blob)
  /\ LET d == decrypt(Val(blob), Row.encryption_key, Row.iv) IN
       d.err = "" /\ isExpired(d.data, now)

\* The code was issued for the transaction and its record has expired.
IssuedAndExpired(otp) ==
  \E i \in 1..Len(otp_logs) :
    /\ otp_logs[i].otp_hash = hashOTP(otp)
    /\ otp_logs[i].transaction_id = TxId
    /\ ~otp_logs[i].is_verified
    /\ otp_logs[i].expires_at < now

\* C1: every change of the persisted status from s to t is an edge of the
\* transition table, VALID_TRANSITIONS[s] includes t.
C1_StatusChangesAlongEdges ==
  [][(HasRow /\ transactions' # <<>> /\ transactions'[1].status # Row.status)
       => isValidTransition(Row.status, transactions'[1].status)]_vars

\* C2: once the status is COMPLETED, FAILED or CANCELLED, no step changes the
\* row: not the status, nor any QR, OTP, attempt-counter or completion field.
C2_TerminalRowIsFrozen ==
  [][(HasRow /\ isTerminalStatus(Row.status))
       => transactions' = transactions]_vars

\* C3: of the complete requests on one transaction at most one is answered
\* with success: none is answered with success on a row that a complete
\* request has already made COMPLETED.
C3_OneCompleteSucceeds ==
  [][(last'.op = "complete" /\ IsSuccess(last'))
       => Row.status # "COMPLETED"]_vars

\* C4: the status becomes COMPLETED only by the write of a complete request;
\* a verify-otp request never makes it COMPLETED.
C4_CompletedOnlyByComplete ==
  [][(transactions' # <<>> /\ transactions'[1].status = "COMPLETED"
      /\ (HasRow => Row.status # "COMPLETED"))
       => last'.op = "complete"]_vars

\* C5: in every reachable state qr2_generated_at set implies qr1_generated_at
\* set; otp_sent_at set implies qr2_generated_at set; otp_verified_at set
\* implies qr1_generated_at, qr2_generated_at and otp_sent_at set; and status
\* COMPLETED implies otp_verified_at set.
C5_TimestampsInOrder ==
  HasRow =>
    /\ IsSet(Row.qr2_generated_at) => IsSet(Row.qr1_generated_at)
    /\ IsSet(Row.otp_sent_at) => IsSet(Row.qr2_generated_at)
    /\ IsSet(Row.otp_verified_at) =>
         /\ IsSet(Row.qr1_generated_at)
         /\ IsSet(Row.qr2_generated_at)
         /\ IsSet(Row.otp_sent_at)
    /\ Row.status = "COMPLETED" => IsSet(Row.otp_verified_at)

\* C5, its case: a transaction that went through every step and is COMPLETED.
C5_Witness ==
  /\ HasRow
  /\ Row.status = "COMPLETED"
  /\ IsSet(Row.completed_at)
  /\ IsSet(Row.otp_verified_at)
  /\ IsSet(Row.otp_sent_at)

\* C6: once a cancel by the sender has made the status CANCELLED, no step
\* advances the transaction to another status.
C6_CancelledStays ==
  [][(HasRow /\ Row.status = "CANCELLED")
       => transactions'[1].status = "CANCELLED"]_vars

\* C7: while the row is INITIATED and its QR1 has not expired, scanQR1 by the
\* receiver with the blob that initiate stored is accepted and writes
\* QR1_SCANNED.
C7_ReceiverScanAccepted ==
  (HasRow /\ Row.status = "INITIATED" /\ IsSet(Row.qr1_encrypted_data)
     /\ now <= Val(Row.qr1_expires_at))
    => LET out == ScanQR1Handler(transactions, Row.receiver_id,
                                 Val(Row.qr1_encrypted_data), now)
       IN out.issue /\ out.data.status = "QR1_SCANNED"

\* C8: the key and IV under which initiate encrypts the QR1 payload are the key
\* and IV that it stores on the row it creates.
C8_OneKeyPerTransaction ==
  [][(~HasRow /\ transactions' # <<>>)
       => \A r \in BagToSet(req') :
            r.op = "initiate" =>
              /\ Val(r.data.qr1_encrypted_data).key
                   = transactions'[1].encryption_key
              /\ Val(r.data.qr1_encrypted_data).iv = transactions'[1].iv]_vars

\* C9: when the stored blob of the awaited scan decrypts to a payload that has
\* expired, the scan by the authorised party writes status FAILED.
C9_ExpiredScanFailsTransaction ==
  /\ (HasRow /\ Row.status = "INITIATED"
        /\ StoredBlobExpired(Row.qr1_encrypted_data))
       => LET out == ScanQR1Handler(transactions, Row.receiver_id,
                                    Val(Row.qr1_encrypted_data), now)
          IN out.issue /\ out.data.status = "FAILED"
  /\ (HasRow /\ Row.status = "QR2_GENERATED"
        /\ StoredBlobExpired(Row.qr2_encrypted_data))
       => LET out == ScanQR2Handler(transactions, Row.sender_id,
                                    Val(Row.qr2_encrypted_data), now)
          IN out.issue /\ out.data.status = "FAILED"

\* C10: when a verifyOTP request that presented the issued code after its
\* expiry is answered on a row in OTP_SENT, the row does not stay in OTP_SENT:
\* its status becomes FAILED.
C10_ExpiredOtpFailsTransaction ==
  [][\A r \in InFlight :
       (/\ r.op = "verifyOTP"
        /\ r.pc = "update"
        /\ r.data = AttemptsUpdate
        /\ HasRow
        /\ Row.status = "OTP_SENT"
        /\ IssuedAndExpired(r.otp)
        /\ TxUpdate(r))
         => transactions'[1].status = "FAILED"]_vars

\* The limit answer of the verify-otp handler.
MaxAttemptsResponse(caller) ==
  Resp("verifyOTP", caller, 400, "Maximum OTP attempts exceeded")

\* A verifyOTP request whose code OTPService.verifyOTP refused, about to
\* raise otp_attempts and answer.
FailedAttempt(r) ==
  /\ r.op = "verifyOTP"
  /\ r.pc = "update"
  /\ r.data = AttemptsUpdate
  /\ "otp" \in DOMAIN r

\* Some unverified OTP record of the transaction has not expired.
LiveOtpRecord ==
  \E i \in 1..Len(otp_logs) :
    /\ otp_logs[i].transaction_id = TxId
    /\ ~otp_logs[i].is_verified
    /\ otp_logs[i].expires_at >= now

\* C11: every failed verifyOTP attempt raises otp_attempts by one; on a row in
\* OTP_SENT whose otp_attempts has reached three, a further verifyOTP by the
\* sender is answered "Maximum OTP attempts exceeded" whatever code it
\* presents, the issued unexpired one included, and its write leaves the
\* status FAILED.
C11_FourthAttemptFails ==
  [][/\ \A r \in InFlight :
          (FailedAttempt(r) /\ TxUpdate(r))
            => transactions'[1].otp_attempts = Row.otp_attempts + 1
     /\ (HasRow /\ Row.status = "OTP_SENT" /\ Row.otp_attempts >= 3)
          => \A otp \in Codes :
               VerifyOTPHandler(transactions, Row.sender_id, otp)
                 = Issue([status |-> "FAILED"],
                         MaxAttemptsResponse(Row.sender_id))
     /\ \A r \in InFlight :
          (/\ r.pc = "update"
           /\ r.resp = MaxAttemptsResponse(r.caller)
           /\ r.data = [status |-> "FAILED"]
           /\ TxUpdate(r))
            => /\ transactions'[1].status = "FAILED"
               /\ last' = MaxAttemptsResponse(r.caller)]_vars

\* C11, its case: three attempts have failed, the issued code is still valid,
\* and the fourth call has just been answered with the limit error.
C11_Witness ==
  /\ HasRow
  /\ Row.otp_attempts = 3
  /\ Row.status = "FAILED"
  /\ LiveOtpRecord
  /\ last = MaxAttemptsResponse(Row.sender_id)

\* No OTP record holds the hash of the presented code.
WrongCode(otp) ==
  \A i \in 1..Len(otp_logs) : otp_logs[i].otp_hash # hashOTP(otp)

\* The third failed call with a wrong code is being answered on a row in
\* OTP_SENT.
ThirdWrongCall(r) ==
  /\ FailedAttempt(r)
  /\ WrongCode(r.otp)
  /\ HasRow
  /\ Row.status = "OTP_SENT"
  /\ Row.otp_attempts = 2
  /\ TxUpdate(r)

\* C12 as stated: the third verifyOTP call with a wrong code is answered with
\* the max-attempts error and the status is FAILED when that call returns.
C12_ThirdCallFailsTransaction ==
  [][\A r \in InFlight :
       ThirdWrongCall(r)
         => /\ last' = MaxAttemptsResponse(r.caller)
            /\ transactions'[1].status = "FAILED"]_vars

\* C12: the third verifyOTP call with a wrong code is answered "Invalid or
\* expired OTP" and leaves the row in OTP_SENT with otp_attempts three; it is
\* the call after it, on that row, that is answered with the max-attempts
\* error and writes FAILED, whatever code it presents.
C12_FourthCallFailsTransaction ==
  [][/\ \A r \in InFlight :
          ThirdWrongCall(r)
            => /\ last' = Resp("verifyOTP", r.caller, 400,
                              "Invalid or expired OTP")
               /\ transactions'[1].status = "OTP_SENT"
               /\ transactions'[1].otp_attempts = 3
     /\ (HasRow /\ Row.status = "OTP_SENT" /\ Row.otp_attempts = 3)
          => \A otp \in Codes :
               LET out == VerifyOTPHandler(transactions, Row.sender_id, otp)
               IN /\ out.issue
                  /\ out.data = [status |-> "FAILED"]
                  /\ out.resp.msg = "Maximum OTP attempts exceeded"]_vars

\* C12, its case: the third wrong code has just been refused while the issued
\* code is still valid.
C12_Witness ==
  /\ HasRow
  /\ Row.status = "OTP_SENT"
  /\ Row.otp_attempts = 3
  /\ LiveOtpRecord
  /\ last = Resp("verifyOTP", Row.sender_id, 400, "Invalid or expired OTP")

\* C13: OTPService.verifyOTP accepts a call only when, at its lookup, a stored
\* record of the caller's phone, the purpose and the transaction id is
\* unverified, unexpired and holds the hash of the presented code; a success
\* answer of verifyOTP comes only from an accepted call.
C13_OnlyMatchingCodeAccepted ==
  [][/\ \A r \in BagToSet(req') :
          (r.pc = "otp_mark" /\ CopiesIn(r, req') > CopiesIn(r, req))
            => /\ r.id \in 1..Len(otp_logs)
               /\ otp_logs[r.id].phone_number = Phone(r.caller)
               /\ otp_logs[r.id].purpose = "transaction"
               /\ otp_logs[r.id].transaction_id = TxId
               /\ otp_logs[r.id].is_verified = FALSE
               /\ otp_logs[r.id].expires_at >= now
               /\ otp_logs[r.id].otp_hash = hashOTP(r.otp)
     /\ \A r \in BagToSet(req') :
          (/\ r.op = "verifyOTP"
           /\ r.pc = "update"
           /\ IsSuccess(r.resp)
           /\ CopiesIn(r, req') > CopiesIn(r, req))
            => \E q \in InFlight :
                 /\ q.pc = "otp_mark"
                 /\ q.caller = r.caller
                 /\ otp_logs'[q.id].is_verified]_vars

\* C13, its case: a verifyOTP call was accepted on the issued code and
\* answered with success.
C13_Witness ==
  /\ last.op = "verifyOTP"
  /\ IsSuccess(last)
  /\ \E i \in 1..Len(otp_logs) : otp_logs[i].is_verified

\* C14: an OTP record is accepted by at most one verifyOTP call: no call marks
\* verified a record that an earlier call has already marked.
C14_RecordAcceptedOnce ==
  [][\A r \in InFlight :
       (/\ r.pc = "otp_mark"
        /\ CopiesIn(r, req') < CopiesIn(r, req))
         => ~otp_logs[r.id].is_verified]_vars

\* An unverified OTP record of the phone and purpose, whatever its code.
UnverifiedRecords(phoneNumber, purpose) ==
  {i \in 1..Len(otp_logs) :
     /\ otp_logs[i].phone_number = phoneNumber
     /\ otp_logs[i].purpose = purpose
     /\ ~otp_logs[i].is_verified}

\* C15: when a verifyOTP call that presented a code matching no record is
\* answered with its error, the attempt counter of the unverified record of
\* that phone and purpose has been raised.
C15_MismatchCountedOnRecord ==
  [][\A r \in InFlight :
       (/\ FailedAttempt(r)
        /\ WrongCode(r.otp)
        /\ UnverifiedRecords(Phone(r.caller), "transaction") # {}
        /\ TxUpdate(r))
         => \E i \in UnverifiedRecords(Phone(r.caller), "transaction") :
              otp_logs'[i].attempts >= 1]_vars

\* C16: in every reachable state at most one OTP record of the same phone,
\* purpose and transaction id is unverified and unexpired.
C16_OneActiveRecord ==
  \A i, j \in 1..Len(otp_logs) :
    (/\ otp_logs[i].phone_number = otp_logs[j].phone_number
     /\ otp_logs[i].purpose = otp_logs[j].purpose
     /\ otp_logs[i].transaction_id = otp_logs[j].transaction_id
     /\ ~otp_logs[i].is_verified /\ otp_logs[i].expires_at >= now
     /\ ~otp_logs[j].is_verified /\ otp_logs[j].expires_at >= now)
      => i = j

\* C17: otp_attempts is 0 on the row that initiate creates and is at most
\* three in every reachable state.
C17_AttemptsAtMostThree ==
  [][/\ (~HasRow /\ transactions' # <<>>) => transactions'[1].otp_attempts = 0
     /\ transactions' # <<>> => transactions'[1].otp_attempts <= 3]_vars

\* C18: a call answered with a server error has left the persisted state as it
\* was: a failing initiate leaves no row, and a call that fails at its log or
\* notification write has changed neither the row nor the OTP records.
C18_FailureLeavesNoTrace ==
  [][last'.http = 500
       => /\ last'.op = "initiate" => transactions' = <<>>
          /\ transactions' = transactions
          /\ otp_logs' = otp_logs]_vars

C20_RefusedForMissingQR2 ==
  (HasRow /\ Row.status = "QR1_SCANNED" /\ ~IsSet(Row.qr2_generated_at))
    => SendOTPHandler(transactions, Row.sender_id)
         = Reject(Resp("sendOTP", Row.sender_id, 400,
                       "QR2 must be generated before sending OTP"))

\* C20: sendOTP by the sender on a row in QR1_SCANNED whose QR2 has not been
\* generated issues no write and no OTP record and is refused with the status
\* error "Invalid transaction status"; the status helper too refuses the move
\* to OTP_SENT as an invalid transition before it looks at prerequisites.
C20_RefusedForStatus ==
  (HasRow /\ Row.status = "QR1_SCANNED" /\ ~IsSet(Row.qr2_generated_at))
    => /\ SendOTPHandler(transactions, Row.sender_id)
            = Reject(Resp("sendOTP", Row.sender_id, 400,
                          "Invalid transaction status"))
       /\ validateStatusTransition(Row, "OTP_SENT")
            = Invalid("Invalid status transition from QR1_SCANNED to OTP_SENT")
       /\ \A r \in InFlight : r.op # "sendOTP"

\* C20, its case: the sender's sendOTP has just been refused on a row in
\* QR1_SCANNED without a QR2, and no OTP record exists.
C20_Witness ==
  /\ HasRow
  /\ Row.status = "QR1_SCANNED"
  /\ ~IsSet(Row.qr2_generated_at)
  /\ last = Resp("sendOTP", Row.sender_id, 400, "Invalid transaction status")
  /\ otp_logs = <<>>
  /\ req = EmptyBag

\* The rows that differ from `row` in the three columns that complete tests,
\* in the status of `row` and in OTP_VERIFIED.
RowsLike(row) ==
  {[row EXCEPT !.status = s, !.qr1_generated_at = a, !.qr2_generated_at = b,
               !.otp_verified_at = c] :
     s \in {row.status, "OTP_VERIFIED"}, a \in {Null, Stamped(0)},
     b \in {Null, Stamped(0)}, c \in {Null, Stamped(0)}}

\* One of the three columns that complete tests is null.
MissingForComplete(row) ==
  \/ ~IsSet(row.otp_verified_at)
  \/ ~IsSet(row.qr1_generated_at)
  \/ ~IsSet(row.qr2_generated_at)

\* The answers of complete that name a missing column.
CompletePrerequisiteErrors ==
  {"QR1 was not generated", "QR2 was not generated", "OTP was not verified"}

\* C21 as stated: complete by the sender on a row on which otp_verified_at,
\* qr1_generated_at or qr2_generated_at is null is refused with an error that
\* names the missing column.
C21_MissingColumnNamed ==
  (HasRow /\ MissingForComplete(Row))
    => LET out == CompleteHandler(transactions, Row.sender_id, now) IN
         ~out.issue /\ out.resp.msg \in CompletePrerequisiteErrors

\* C21: complete issues its write only on a row in OTP_VERIFIED with
\* otp_verified_at, qr1_generated_at and qr2_generated_at all set; on a row in
\* OTP_VERIFIED with one of them null it returns 400 with the error naming the
\* missing column, on a row in any other status it returns 400 with the status
\* error, in both cases without a write; and every complete request that
\* holds a write for the row is on the success path.
C21_CompleteNeedsAllThree ==
  /\ HasRow =>
       \A row \in RowsLike(Row) :
         LET out == CompleteHandler(<<row>>, row.sender_id, now) IN
           /\ out.issue <=> (row.status = "OTP_VERIFIED"
                             /\ ~MissingForComplete(row))
           /\ (row.status = "OTP_VERIFIED" /\ MissingForComplete(row))
                => /\ out.resp.http = 400
                   /\ out.resp.msg \in CompletePrerequisiteErrors
           /\ row.status # "OTP_VERIFIED"
                => out.resp = Resp("complete", row.sender_id, 400,
                     "Cannot complete payment. Transaction must be in OTP_VERIFIED status. Current status: "
                       \o row.status)
  /\ \A r \in InFlight :
       (r.op = "complete" /\ r.pc = "update")
         => /\ IsSuccess(r.resp)
            /\ r.data.status = "COMPLETED"

\* C21, its case: the sender's complete has just been refused on a row whose
\* otp_verified_at is null.
C21_Witness ==
  /\ HasRow
  /\ ~IsSet(Row.otp_verified_at)
  /\ last.op = "complete"
  /\ last.caller = Row.sender_id
  /\ last.http = 400
  /\ req = EmptyBag

\* The minute at which the blob of a generateQR call expires.
ExpiryOf(g) ==
  g.t + (IF g.data.type = "qr1" THEN QR1_EXPIRY_MIN ELSE QR2_EXPIRY_MIN)

PrerequisitesHold(tx, target) ==
  CASE target = "QR2_GENERATED" -> IsSet(tx.qr1_generated_at)
    [] target = "OTP_SENT" -> IsSet(tx.qr2_generated_at)
    [] target = "OTP_VERIFIED" ->
         /\ IsSet(tx.qr1_generated_at)
         /\ IsSet(tx.qr2_generated_at)
         /\ IsSet(tx.otp_sent_at)
    [] target = "COMPLETED" ->
         /\ IsSet(tx.otp_verified_at)
         /\ IsSet(tx.qr1_generated_at)
         /\ IsSet(tx.qr2_generated_at)
    [] OTHER -> TRUE

\* The transition table lists the target for the status.
Listed(status, target) ==
  \E i \in 1..Len(VALID_TRANSITIONS[status]) :
    VALID_TRANSITIONS[status][i] = target

\* C25: validateStatusTransition(tx, target) returns valid exactly when the
\* table lists target for tx.status and the prerequisites of target hold on
\* tx; when the table does not list it, the error is the invalid-transition
\* text with the current and the target status; the record passed in is as it
\* was.
C25_ValidExactlyWhenLegal ==
  \A r \in InFlight :
    r.op = "validateStatusTransition" =>
      LET tx == r.transaction
          target == r.targetStatus
      IN /\ r.result.valid
              <=> (Listed(tx.status, target) /\ PrerequisitesHold(tx, target))
         /\ ~Listed(tx.status, target)
              => r.result.error = "Invalid status transition from "
                                    \o tx.status \o " to " \o target
         /\ (Listed(tx.status, target) /\ ~PrerequisitesHold(tx, target))
              => (r.result.error # "" /\ r.result.error
                    # "Invalid status transition from "
                        \o tx.status \o " to " \o target)
         /\ HasRow /\ Row = tx

\* C25, its case: the helper has refused the move from OTP_SENT to
\* OTP_VERIFIED on a record whose otp_sent_at alone is null.
C25_Witness ==
  \E r \in InFlight :
    /\ r.op = "validateStatusTransition"
    /\ r.transaction.status = "OTP_SENT"
    /\ r.targetStatus = "OTP_VERIFIED"
    /\ IsSet(r.transaction.qr1_generated_at)
    /\ IsSet(r.transaction.qr2_generated_at)
    /\ ~IsSet(r.transaction.otp_sent_at)
    /\ r.result = Invalid("OTP must be sent before verification")

\* The statuses in the order of an undisturbed transaction.
HappyPath ==
  <<"INITIATED", "QR1_SCANNED", "QR2_GENERATED", "QR2_SCANNED", "OTP_SENT",
    "OTP_VERIFIED", "COMPLETED">>

\* C26: getNextExpectedStatus returns null for COMPLETED, FAILED and
\* CANCELLED and, for every other status, its one listed successor that is
\* neither CANCELLED nor FAILED; from INITIATED the returned statuses run
\* through QR1_SCANNED, QR2_GENERATED, QR2_SCANNED, OTP_SENT, OTP_VERIFIED and
\* COMPLETED, after which it returns null.
C26_NextExpectedIsHappyPath ==
  /\ \A r \in InFlight :
       r.op = "getNextExpectedStatus" =>
         IF isTerminalStatus(r.currentStatus)
         THEN r.result = Null
         ELSE /\ IsSet(r.result)
              /\ {t \in Statuses \ {"CANCELLED", "FAILED"} :
                    Listed(r.currentStatus, t)} = {Val(r.result)}
              /\ isValidTransition(r.currentStatus, Val(r.result))
  /\ \A i \in 1..(Len(HappyPath) - 1) :
       getNextExpectedStatus(HappyPath[i]) = Some(HappyPath[i + 1])
  /\ getNextExpectedStatus(HappyPath[Len(HappyPath)]) = Null

\* C26, its case: the helper was asked for the successor of OTP_VERIFIED and
\* named COMPLETED.
C26_Witness ==
  \E r \in InFlight :
    /\ r.op = "getNextExpectedStatus"
    /\ r.currentStatus = "OTP_VERIFIED"
    /\ r.result = Some("COMPLETED")

\* C23: no response carries the encryption key or the IV of the transaction.
C23_NoKeyInResponse ==
  "transaction" \in DOMAIN last
    => /\ "encryption_key" \notin DOMAIN last.transaction
       /\ "iv" \notin DOMAIN last.transaction

\* C28: while the code that send-otp stored for a phone number is the latest
\* for that number and has not expired, verify-otp with that number and that
\* code is accepted.
C28_StoredCodeAccepted ==
  \A user \in Users :
    LET entry == otpStore["send-otp"][Phone(user)] IN
      (IsSet(entry) /\ now <= Val(entry).expires)
        => IsSuccess(AuthVerifyOTPHandler(otpStore["verify-otp"], user,
                                          Val(entry).otp, now).resp)

\* C24: no scanQR2 request is answered with success on a row that a scan of
\* the stored QR2 blob has already moved to QR2_SCANNED, and no scanQR1
\* request on a row already in QR1_SCANNED.
C24_BlobAcceptedOnce ==
  [][/\ (last'.op = "scanQR2" /\ IsSuccess(last'))
          => ~(/\ Row.status = "QR2_SCANNED"
               /\ Row.qr2_encrypted_data = transactions'[1].qr2_encrypted_data)
     /\ (last'.op = "scanQR1" /\ IsSuccess(last'))
          => ~(/\ Row.status = "QR1_SCANNED"
               /\ Row.qr1_encrypted_data = transactions'[1].qr1_encrypted_data)]_vars

\* C27: for the party of the step and a blob or code that passes, each handler
\* issues its write exactly when validateStatusTransition holds for the loaded
\* row and the step's target status.
C27_HandlersFollowStateMachine ==
  HasRow =>
    LET ok(target) == validateStatusTransition(Row, target).valid IN
      /\ \A n \in Nonces :
           GenerateQR2Handler(transactions, Row.receiver_id, now, n).issue
             <=> ok("QR2_GENERATED")
      /\ SendOTPHandler(transactions, Row.sender_id).issue <=> ok("OTP_SENT")
      /\ CompleteHandler(transactions, Row.sender_id, now).issue
           <=> ok("COMPLETED")
      /\ CancelHandler(transactions, Row.sender_id, "cancel").issue
           <=> ok("CANCELLED")
      /\ (Row.otp_attempts < 3)
           => \A otp \in Codes :
                VerifyOTPHandler(transactions, Row.sender_id, otp).issue
                  <=> ok("OTP_VERIFIED")
      /\ (IsSet(Row.qr2_encrypted_data)
          /\ ~StoredBlobExpired(Row.qr2_encrypted_data))
           => (ScanQR2Handler(transactions, Row.sender_id,
                              Val(Row.qr2_encrypted_data), now).issue
                 <=> ok("QR2_SCANNED"))

\* C29: in every reachable state completed_at is set exactly when the status
\* is COMPLETED.
C29_CompletedAtIffCompleted ==
  HasRow => (IsSet(Row.completed_at) <=> Row.status = "COMPLETED")

\* C30: otp_attempts changes only in the answer to a verifyOTP request whose
\* code OTPService.verifyOTP refused.
C30_AttemptsCountRefusedCodes ==
  [][(HasRow /\ transactions'[1].otp_attempts # Row.otp_attempts)
       => \E r \in InFlight : FailedAttempt(r) /\ TxUpdate(r)]_vars

====
